---- MODULE Spec2Model ----
(***************************************************************************)
(* A model of tiny_bail (src/src/lib.rs): the IntoResult normalisation,    *)
(* the three helper expansions __unwrap_or, __unwrap_or_quiet and          *)
(* __unwrap_or_log_once, the nine public macros built on them, and the     *)
(* eighteen harness functions of the crate's tests, each of which is one   *)
(* call site of one macro.  Threads run harness functions; a macro         *)
(* invocation is a sequence of steps (match, latch swap, log, exit).       *)
(***************************************************************************)
EXTENDS Integers, FiniteSets

\* ---------------------------------------------------------------- bounds
NumThreads == 2
MaxCalls == 2

\* -------------------------------------------------------- program constants
LoopN == 2
FallThrough == 2
ProvidedValue == 1
DefaultI32 == 0

Threads == 1..NumThreads
Main == 1

\* ---------------------------------------------------------------- values
\* A plain value is [ty, v]; a fallible value is [shape, ty, v] with the
\* payload (or error detail) flattened into ty and v.
Val(ty, v) == [ty |-> ty, v |-> v]
True == Val("bool", 1)
False == Val("bool", 0)
Unit == Val("unit", 0)
NoneUnit == Val("Option<()>", 0)
I32(n) == Val("i32", n)
Unset == Val("unset", 0)

Fallible(shape, x) == [shape |-> shape, ty |-> x.ty, v |-> x.v]
Bool(b) == Fallible("bool", IF b THEN True ELSE False)
Some(x) == Fallible("Some", x)
None == Fallible("None", Unit)
Ok(x) == Fallible("Ok", x)
Err(e) == Fallible("Err", e)
Inner(f) == Val(f.ty, f.v)

\* bool::then_some and Option::ok_or, as used by the IntoResult impls.
then_some(b, x) == IF Inner(b) = True THEN Some(x) ELSE None
ok_or(opt, err) == IF opt.shape = "Some" THEN Ok(Inner(opt)) ELSE Err(err)

\* Faulty variant: the two constants of the bool impl exchanged.
into_result_bool_exchanged(self) == ok_or(then_some(self, False), True)

into_result_bool(self) == ok_or(then_some(self, True), False)
\* Faulty variant: the absent optional failing with () as its detail.
into_result_option_unit(self) == ok_or(self, Unit)

into_result_option(self) == ok_or(self, NoneUnit)
into_result_result(self) == self

into_result(self) ==
    CASE self.shape = "bool" -> into_result_bool(self)
      [] self.shape \in {"Some", "None"} -> into_result_option(self)
      [] OTHER -> into_result_result(self)

\* {:?} of the failure details the tests produce.
Debug(x) ==
    CASE x.ty = "bool" -> IF x.v = 1 THEN "true" ELSE "false"
      [] x.ty = "Option<()>" -> "None"
      [] x.ty = "unit" -> "()"
      [] OTHER -> "i32"

\* ---------------------------------------------------------------- macros
\* A macro call expands to a helper applied to $expr and an $else
\* expression, here its keyword and the optional first argument.
NoArg == ""
Expansion(helper, kind, arg) == [helper |-> helper, kind |-> kind, arg |-> arg]

or_return(arg) == Expansion("__unwrap_or", "return", arg)
or_continue(arg) == Expansion("__unwrap_or", "continue", arg)
or_break(arg) == Expansion("__unwrap_or", "break", arg)
or_return_quiet(arg) == Expansion("__unwrap_or_quiet", "return", arg)
\* Faulty variant: a copy of or_break_quiet left with its keyword.
or_continue_quiet_as_break(arg) == Expansion("__unwrap_or_quiet", "break", arg)
or_continue_quiet(arg) == Expansion("__unwrap_or_quiet", "continue", arg)
or_break_quiet(arg) == Expansion("__unwrap_or_quiet", "break", arg)
or_return_log_once(arg) == Expansion("__unwrap_or_log_once", "return", arg)
or_continue_log_once(arg) == Expansion("__unwrap_or_log_once", "continue", arg)
or_break_log_once(arg) == Expansion("__unwrap_or_log_once", "break", arg)

\* ------------------------------------------------------------ call sites
\* The harness functions of mod tests, named as the tests are.
ReturnSites == {"r", "r_with_value", "rq", "rq_with_value", "ro", "ro_with_value"}
ContinueSites == {"c", "c_with_label", "cq", "cq_with_label", "co", "co_with_label"}
BreakSites == {"b", "b_with_label", "bq", "bq_with_label", "bo", "bo_with_label"}
Sites == ReturnSites \cup ContinueSites \cup BreakSites

SiteMacro(s) ==
    CASE s = "r" -> or_return(NoArg)
      [] s = "r_with_value" -> or_return("1")
      [] s = "rq" -> or_return_quiet(NoArg)
      [] s = "rq_with_value" -> or_return_quiet("1")
      [] s = "ro" -> or_return_log_once(NoArg)
      [] s = "ro_with_value" -> or_return_log_once("1")
      [] s = "c" -> or_continue(NoArg)
      [] s = "c_with_label" -> or_continue("'_a")
      [] s = "cq" -> or_continue_quiet(NoArg)
      [] s = "cq_with_label" -> or_continue_quiet("'_a")
      [] s = "co" -> or_continue_log_once(NoArg)
      [] s = "co_with_label" -> or_continue_log_once("'_a")
      [] s = "b" -> or_break(NoArg)
      [] s = "b_with_label" -> or_break("'_a")
      [] s = "bq" -> or_break_quiet(NoArg)
      [] s = "bq_with_label" -> or_break_quiet("'_a")
      [] s = "bo" -> or_break_log_once(NoArg)
      [] OTHER -> or_break_log_once("'_a")

LogSites == {s \in Sites : SiteMacro(s).helper = "__unwrap_or"}
QuietSites == {s \in Sites : SiteMacro(s).helper = "__unwrap_or_quiet"}
OnceSites == {s \in Sites : SiteMacro(s).helper = "__unwrap_or_log_once"}

\* The (outer, inner) arguments the tests pass to bail, with a second payload.
Payloads == {-1, 2}
Cases ==
    {[outer |-> Bool(TRUE), inner |-> True], [outer |-> Bool(FALSE), inner |-> True],
     [outer |-> None, inner |-> I32(-1)], [outer |-> Err(Unit), inner |-> I32(-1)]}
    \cup {[outer |-> Some(I32(p)), inner |-> I32(p)] : p \in Payloads}
    \cup {[outer |-> Ok(I32(p)), inner |-> I32(p)] : p \in Payloads}

\* ----------------------------------------------------------- the build
\* The cargo features of the crate and the compile_error! checks on them.
Backends == {"log", "tracing"}
Levels == {"trace", "debug", "info", "warn", "error"}
Features == Backends \cup Levels

\* The default features: "instead of `tracing::warn!`" in the crate docs.
DefaultFeatures == {"tracing", "warn"}

MultipleBackends == "multiple log backend features are set (log, tracing)"
MultipleLevels == "multiple log level features are set (trace, debug, info, warn, error)"
BackendNoLevel ==
    "a log backend feature is set (log, tracing), but no log level feature is set (trace, debug, info, warn, error)"
LevelNoBackend ==
    "a log level feature is set (trace, debug, info, warn, error), but no log backend feature is set (log, tracing)"

\* cfg(feature = ".."), cfg(all(..)) over two features, cfg(any(..)).
feature(fs, f) == f \in fs
all2(fs, f, g) == feature(fs, f) /\ feature(fs, g)
any_backend(fs) == feature(fs, "log") \/ feature(fs, "tracing")
any_level(fs) ==
    \/ feature(fs, "trace")
    \/ feature(fs, "debug")
    \/ feature(fs, "info")
    \/ feature(fs, "warn")
    \/ feature(fs, "error")

\* Faulty variant: one of the ten pairs of levels left out.
cfg_multiple_levels_nine_pairs(fs) ==
    \/ all2(fs, "trace", "debug")
    \/ all2(fs, "trace", "info")
    \/ all2(fs, "trace", "warn")
    \/ all2(fs, "trace", "error")
    \/ all2(fs, "debug", "info")
    \/ all2(fs, "debug", "warn")
    \/ all2(fs, "debug", "error")
    \/ all2(fs, "info", "warn")
    \/ all2(fs, "warn", "error")

\* The cfg conditions of the four compile_error! items.
cfg_multiple_backends(fs) == all2(fs, "log", "tracing")
cfg_multiple_levels(fs) ==
    \/ all2(fs, "trace", "debug")
    \/ all2(fs, "trace", "info")
    \/ all2(fs, "trace", "warn")
    \/ all2(fs, "trace", "error")
    \/ all2(fs, "debug", "info")
    \/ all2(fs, "debug", "warn")
    \/ all2(fs, "debug", "error")
    \/ all2(fs, "info", "warn")
    \/ all2(fs, "info", "error")
    \/ all2(fs, "warn", "error")
cfg_backend_no_level(fs) == any_backend(fs) /\ ~any_level(fs)
cfg_level_no_backend(fs) == ~any_backend(fs) /\ any_level(fs)

compile_errors(fs) ==
    {m \in {MultipleBackends, MultipleLevels, BackendNoLevel, LevelNoBackend} :
        \/ m = MultipleBackends /\ cfg_multiple_backends(fs)
        \/ m = MultipleLevels /\ cfg_multiple_levels(fs)
        \/ m = BackendNoLevel /\ cfg_backend_no_level(fs)
        \/ m = LevelNoBackend /\ cfg_level_no_backend(fs)}

\* mod __log_backend: the macros the chosen backend re-exports.
__log_backend(fs) ==
    (IF feature(fs, "log") THEN {"log"} ELSE {})
    \cup (IF feature(fs, "tracing") THEN {"tracing"} ELSE {})
    \cup (IF ~any_backend(fs) THEN {"std::println"} ELSE {})

\* The set_log_level! calls the features select.
set_log_level(fs) ==
    {l \in Levels : feature(fs, l)} \cup (IF ~any_level(fs) THEN {"println"} ELSE {})

NotBuilt == [done |-> FALSE, ok |-> FALSE, errors |-> {}, backend |-> {}, level |-> {}]

\* cargo build: the crate compiles when no compile_error! item is kept.
cargo_build(fs) ==
    [done |-> TRUE, ok |-> compile_errors(fs) = {}, errors |-> compile_errors(fs),
     backend |-> __log_backend(fs), level |-> set_log_level(fs)]

\* ------------------------------------------------------ import surface
\* A name a module offers and the macro it names.
Export(name, macro) == [name |-> name, macro |-> macro]

\* pub mod explicit { pub use super::{..}; }
explicit ==
    {Export(n, n) : n \in {"or_break", "or_break_quiet", "or_continue", "or_continue_quiet",
                           "or_return", "or_return_quiet"}}

\* pub mod prelude { pub use super::explicit::*; pub use or_return as r; .. }
prelude ==
    explicit \cup
    {Export("r", "or_return"), Export("rq", "or_return_quiet"),
     Export("c", "or_continue"), Export("cq", "or_continue_quiet"),
     Export("b", "or_break"), Export("bq", "or_break_quiet")}

Modules == {"prelude", "explicit"}
Exports(m) == IF m = "prelude" THEN prelude ELSE explicit

\* use tiny_bail::<m>::*; every public name of m, remembered with its origin.
glob_import(m) == {[via |-> m, name |-> e.name, macro |-> e.macro] : e \in Exports(m)}

\* ----------------------------------------------------------------- state
VARIABLES
    frame,          \* per thread: the running bail harness (its locals and position)
    inv,            \* per thread: what the current macro invocation has done so far
    __SHOULD_LOG,   \* per log-once expansion: the static AtomicBool
    logged,         \* per call site: diagnostics emitted so far
    failed,         \* per log-once call site: has an invocation matched the Err arm
    budget,         \* per thread: harness calls it may still start
    features,       \* the cargo features the crate is built with
    build,          \* the outcome of compiling the crate with them
    scope           \* the macro names a user module has glob-imported

vars == <<frame, inv, __SHOULD_LOG, logged, failed, budget, features, build, scope>>
crate == <<features, build, scope>>

IdleFrame ==
    [pc |-> "idle", site |-> "none", outer |-> None, inner |-> Unset, i |-> 0, j |-> 0,
     val |-> 0, yielded |-> Unset, err |-> Unset, result |-> 0]

NoLine == [at |-> "none", expr |-> "", is |-> ""]

\* No Result yet: the invocation has not evaluated into_result($expr).
NoRes == Fallible("none", Unset)

NoInv == [outcome |-> "none", emitted |-> 0, line |-> NoLine, exits |-> 0, exit |-> "none",
          target |-> "none", swapped |-> FALSE, won |-> FALSE, vevals |-> 0,
          res |-> NoRes, evals |-> 0]

\* fn bail(outer, inner) -> i32: the return harnesses go straight to the
\* macro, the loop harnesses start with `let mut val = 0` and the '_a loop.
bail(s, c) ==
    [IdleFrame EXCEPT !.pc = IF s \in ReturnSites THEN "macro" ELSE "outer",
                      !.site = s, !.outer = c.outer, !.inner = c.inner]

\* '_a: for _ in 0..2 { val += 1; ...
OuterLoop(f) ==
    IF f.i < LoopN THEN [f EXCEPT !.val = @ + 1, !.j = 0, !.pc = "inner"]
    ELSE [f EXCEPT !.pc = "tail"]

\* for _ in 0..2 { val += 1; <macro call> ...
InnerLoop(f) ==
    IF f.j < LoopN THEN [f EXCEPT !.val = @ + 1, !.pc = "macro"]
    ELSE [f EXCEPT !.pc = "outer_tail"]

\* ... val += 1; } closing the '_a loop body.
OuterTail(f) == [f EXCEPT !.val = @ + 1, !.i = @ + 1, !.pc = "outer"]

\* assert_eq!(<macro call>, inner); and what follows it in the body.
assert_eq(f) ==
    IF f.yielded # f.inner THEN [f EXCEPT !.pc = "panic"]
    ELSE IF f.site \in ReturnSites THEN [f EXCEPT !.pc = "tail"]
    ELSE [f EXCEPT !.val = @ + 1, !.j = @ + 1, !.pc = "inner"]

\* The tail expression of bail: `2` or `val`.
TailExpr(f) ==
    [f EXCEPT !.result = IF f.site \in ReturnSites THEN FallThrough ELSE f.val,
              !.pc = "done"]

\* The match of each helper on into_result($expr): the Ok arm yields x to
\* the surrounding expression, the Err arm goes on to the helper's block.
__unwrap_or(f, res) ==
    IF res.shape = "Ok" THEN [f EXCEPT !.yielded = Inner(res), !.pc = "assert"]
    ELSE [f EXCEPT !.yielded = Unset, !.err = Inner(res), !.pc = "log"]

\* Faulty variant: the quiet helper keeping the log of __unwrap_or.
__unwrap_or_quiet_logging(f, res) ==
    IF res.shape = "Ok" THEN [f EXCEPT !.yielded = Inner(res), !.pc = "assert"]
    ELSE [f EXCEPT !.yielded = Unset, !.err = Inner(res), !.pc = "log"]

__unwrap_or_quiet(f, res) ==
    IF res.shape = "Ok" THEN [f EXCEPT !.yielded = Inner(res), !.pc = "assert"]
    ELSE [f EXCEPT !.yielded = Unset, !.pc = "else"]

__unwrap_or_log_once(f, res) ==
    IF res.shape = "Ok" THEN [f EXCEPT !.yielded = Inner(res), !.pc = "assert"]
    ELSE [f EXCEPT !.yielded = Unset, !.err = Inner(res), !.pc = "swap"]

Helper(m, f, res) ==
    CASE m.helper = "__unwrap_or" -> __unwrap_or(f, res)
      [] m.helper = "__unwrap_or_quiet" -> __unwrap_or_quiet(f, res)
      [] OTHER -> __unwrap_or_log_once(f, res)

\* Faulty variant: one static shared by every expansion.
LatchOf_shared(s) == "ro"

\* The static of one __unwrap_or_log_once expansion: one per call site.
LatchOf(s) == s

\* Faulty variant: a load in place of the swap.
swap_as_load(old, new) == [stored |-> old, returned |-> old]

\* AtomicBool::swap: store the new value, return the old one.
swap(old, new) == [stored |-> new, returned |-> old]

\* Faulty variant: the condition negated.
AfterSwap_negated(f, returned) == [f EXCEPT !.pc = IF returned THEN "else" ELSE "log"]

\* Faulty variant: the caller that finds the latch taken tries the swap again.
AfterSwap_retry(f, returned) == [f EXCEPT !.pc = IF returned THEN "log" ELSE "swap"]

\* if __SHOULD_LOG.swap(false, Relaxed) { __log_bail!(..) } $else;
AfterSwap(f, returned) == [f EXCEPT !.pc = IF returned THEN "log" ELSE "else"]

\* Faulty variant: the logging macro evaluating the expression it is given.
stringify_evaluating(expr) == [text |-> expr, evals |-> 1]

\* stringify!($expr): the tokens of the expression as text, nothing evaluated.
stringify(expr) == [text |-> expr, evals |-> 0]

\* ___log_bail: "Bailed at {file}:{line}:{column}: `{expr}` is `{err:?}`".
___log_bail(s, expr, err) == [at |-> s, expr |-> expr, is |-> Debug(err)]

\* Faulty variant: the first rule of or_return dropping $return.
ReturnExit_default_only(arg, f) == [f EXCEPT !.result = DefaultI32, !.pc = "done"]

\* return $return / return Default::default()
ReturnExit(arg, f) ==
    [f EXCEPT !.result = IF arg = NoArg THEN DefaultI32 ELSE ProvidedValue, !.pc = "done"]

\* Faulty variant: the first rule of or_continue dropping $label.
ContinueExit_unlabeled_only(arg, f) == [f EXCEPT !.j = @ + 1, !.pc = "inner"]

\* continue / continue $label, in the inner of the two loops of bail
ContinueExit(arg, f) ==
    IF arg = NoArg THEN [f EXCEPT !.j = @ + 1, !.pc = "inner"]
    ELSE [f EXCEPT !.i = @ + 1, !.pc = "outer"]

\* Faulty variant: the first rule of or_break dropping $label.
BreakExit_unlabeled_only(arg, f) == [f EXCEPT !.pc = "outer_tail"]

\* break / break $label, in the inner of the two loops of bail
BreakExit(arg, f) ==
    IF arg = NoArg THEN [f EXCEPT !.pc = "outer_tail"]
    ELSE [f EXCEPT !.pc = "tail"]

ElseExit(m, f) ==
    CASE m.kind = "return" -> ReturnExit(m.arg, f)
      [] m.kind = "continue" -> ContinueExit(m.arg, f)
      [] OTHER -> BreakExit(m.arg, f)

\* --------------------------------------------------------------- actions
Site(t) == frame[t].site
Macro(t) == SiteMacro(frame[t].site)
At(t, pc) == frame[t].pc = pc

Call(t, s, c) ==
    /\ build.ok
    /\ At(t, "idle")
    /\ budget[t] > 0
    /\ frame' = [frame EXCEPT ![t] = bail(s, c)]
    /\ inv' = [inv EXCEPT ![t] = NoInv]
    /\ budget' = [budget EXCEPT ![t] = @ - 1]
    /\ UNCHANGED <<__SHOULD_LOG, logged, failed>>
    /\ UNCHANGED crate

OuterStep(t) ==
    /\ At(t, "outer")
    /\ frame' = [frame EXCEPT ![t] = OuterLoop(@)]
    /\ UNCHANGED <<inv, __SHOULD_LOG, logged, failed, budget>>
    /\ UNCHANGED crate

InnerStep(t) ==
    /\ At(t, "inner")
    /\ frame' = [frame EXCEPT ![t] = InnerLoop(@)]
    /\ UNCHANGED <<inv, __SHOULD_LOG, logged, failed, budget>>
    /\ UNCHANGED crate

OuterTailStep(t) ==
    /\ At(t, "outer_tail")
    /\ frame' = [frame EXCEPT ![t] = OuterTail(@)]
    /\ UNCHANGED <<inv, __SHOULD_LOG, logged, failed, budget>>
    /\ UNCHANGED crate

\* match $crate::IntoResult::into_result($expr) { .. }
Unwrap(t) ==
    /\ At(t, "macro")
    /\ LET res == into_result(frame[t].outer)
           f == Helper(Macro(t), frame[t], res)
       IN /\ frame' = [frame EXCEPT ![t] = f]
          /\ inv' = [inv EXCEPT ![t] = [NoInv EXCEPT !.outcome = res.shape, !.res = res,
                                                     !.evals = @ + 1]]
          /\ failed' = [s \in OnceSites |->
                            failed[s] \/ (s = Site(t) /\ res.shape = "Err")]
    /\ UNCHANGED <<__SHOULD_LOG, logged, budget>>
    /\ UNCHANGED crate

SwapLatch(t) ==
    /\ At(t, "swap")
    /\ LET l == LatchOf(Site(t))
           r == swap(__SHOULD_LOG[l], FALSE)
       IN /\ __SHOULD_LOG' = [__SHOULD_LOG EXCEPT ![l] = r.stored]
          /\ frame' = [frame EXCEPT ![t] = AfterSwap(@, r.returned)]
          /\ inv' = [inv EXCEPT ![t].swapped = TRUE, ![t].won = r.returned]
    /\ UNCHANGED <<logged, failed, budget>>
    /\ UNCHANGED crate

LogBail(t) ==
    /\ At(t, "log")
    /\ logged' = [logged EXCEPT ![Site(t)] = @ + 1]
    /\ frame' = [frame EXCEPT ![t].pc = "else"]
    /\ LET expr == stringify("outer")
       IN inv' = [inv EXCEPT ![t].emitted = @ + 1,
                             ![t].evals = @ + expr.evals,
                             ![t].line = ___log_bail(Site(t), expr.text, frame[t].err)]
    /\ UNCHANGED <<__SHOULD_LOG, failed, budget>>
    /\ UNCHANGED crate

Else(t) ==
    /\ At(t, "else")
    /\ LET m == Macro(t)
           f == ElseExit(m, frame[t])
       IN /\ frame' = [frame EXCEPT ![t] = f]
          /\ inv' = [inv EXCEPT ![t].exits = @ + 1,
                                ![t].exit = m.kind,
                                ![t].target = f.pc,
                                ![t].vevals = IF m.kind = "return" /\ m.arg # NoArg
                                              THEN @ + 1 ELSE @]
    /\ UNCHANGED <<__SHOULD_LOG, logged, failed, budget>>
    /\ UNCHANGED crate

AssertStep(t) ==
    /\ At(t, "assert")
    /\ frame' = [frame EXCEPT ![t] = assert_eq(@)]
    /\ UNCHANGED <<inv, __SHOULD_LOG, logged, failed, budget>>
    /\ UNCHANGED crate

TailStep(t) ==
    /\ At(t, "tail")
    /\ frame' = [frame EXCEPT ![t] = TailExpr(@)]
    /\ UNCHANGED <<inv, __SHOULD_LOG, logged, failed, budget>>
    /\ UNCHANGED crate

Return(t) ==
    /\ At(t, "done")
    /\ frame' = [frame EXCEPT ![t] = IdleFrame]
    /\ inv' = [inv EXCEPT ![t] = NoInv]
    /\ UNCHANGED <<__SHOULD_LOG, logged, failed, budget>>
    /\ UNCHANGED crate

Step(t) ==
    \/ OuterStep(t)
    \/ InnerStep(t)
    \/ OuterTailStep(t)
    \/ Unwrap(t)
    \/ SwapLatch(t)
    \/ LogBail(t)
    \/ Else(t)
    \/ AssertStep(t)
    \/ TailStep(t)
    \/ Return(t)

\* ------------------------------------------------------- specifications
InitShared ==
    /\ frame = [t \in Threads |-> IdleFrame]
    /\ inv = [t \in Threads |-> NoInv]
    /\ __SHOULD_LOG = [s \in OnceSites |-> TRUE]
    /\ logged = [s \in Sites |-> 0]
    /\ failed = [s \in OnceSites |-> FALSE]
    /\ scope = {}

\* The crate as the tests build it, with the default features.
InitBuilt ==
    /\ features = DefaultFeatures
    /\ build = cargo_build(DefaultFeatures)

\* The test run: one thread calls harness functions one after another.
Init ==
    /\ InitShared
    /\ InitBuilt
    /\ budget = [t \in Threads |-> IF t = Main THEN MaxCalls ELSE 0]

Next ==
    \/ \E t \in Threads, s \in Sites, c \in Cases : Call(t, s, c)
    \/ \E t \in Threads : Step(t)

Spec == Init /\ [][Next]_vars

\* Threads racing on the log-once call sites: each runs one harness call.
ConcSites == {"ro", "co_with_label", "bo"}
ConcCases == {c \in Cases : c.outer.shape \in {"Ok", "Err"} /\ c.inner = I32(-1)}

ConcInit ==
    /\ InitShared
    /\ InitBuilt
    /\ budget = [t \in Threads |-> 1]

ConcNext ==
    \/ \E t \in Threads, s \in ConcSites, c \in ConcCases : Call(t, s, c)
    \/ \E t \in Threads : Step(t)

ConcSpec == ConcInit /\ [][ConcNext]_vars

\* The same race with every thread scheduled fairly.  The loop harnesses are
\* called with failing inputs only: their successes never reach the latch.
FairCalls ==
    {sc \in ConcSites \X ConcCases : sc[1] \in ReturnSites \/ sc[2].outer.shape = "Err"}

FairNext ==
    \/ \E t \in Threads, sc \in FairCalls : Call(t, sc[1], sc[2])
    \/ \E t \in Threads : Step(t)

FairSpec == ConcInit /\ [][FairNext]_vars /\ \A t \in Threads : WF_vars(Step(t))

\* A user crate picks features, builds tiny_bail and glob-imports from it.
Compile ==
    /\ ~build.done
    /\ build' = cargo_build(features)
    /\ UNCHANGED <<frame, inv, __SHOULD_LOG, logged, failed, budget, features, scope>>

BuildInit ==
    /\ InitShared
    /\ budget = [t \in Threads |-> 0]
    /\ features \in SUBSET Features
    /\ build = NotBuilt

\* A user module of a crate that built writes `use tiny_bail::<m>::*;`.
GlobImport(m) ==
    /\ build.done /\ build.ok
    /\ ~(glob_import(m) \subseteq scope)
    /\ scope' = scope \cup glob_import(m)
    /\ UNCHANGED <<frame, inv, __SHOULD_LOG, logged, failed, budget, features, build>>

BuildNext == Compile \/ \E m \in Modules : GlobImport(m)

BuildSpec == BuildInit /\ [][BuildNext]_vars

TypeOK ==
    /\ \A t \in Threads : frame[t].pc \in
          {"idle", "outer", "inner", "outer_tail", "macro", "swap", "log", "else",
           "assert", "tail", "done", "panic"}
    /\ \A s \in OnceSites : __SHOULD_LOG[s] \in BOOLEAN

\* ------------------------------------------------- what the claims refer to
\* Read off the call site as the tests write it, not off the expansion.
Running(t) == frame[t].pc # "idle"
IsSuccess(x) == x = Bool(TRUE) \/ x.shape \in {"Some", "Ok"}
IsFailure(x) == x = Bool(FALSE) \/ x.shape \in {"None", "Err"}
WithArgSites ==
    {"r_with_value", "rq_with_value", "ro_with_value", "c_with_label", "cq_with_label",
     "co_with_label", "b_with_label", "bq_with_label", "bo_with_label"}
AlwaysLogNames == {"r", "r_with_value", "c", "c_with_label", "b", "b_with_label"}
QuietNames == {"rq", "rq_with_value", "cq", "cq_with_label", "bq", "bq_with_label"}
LogOnceNames == {"ro", "ro_with_value", "co", "co_with_label", "bo", "bo_with_label"}
ConfiguredExit(s) ==
    IF s \in ReturnSites THEN "return" ELSE IF s \in ContinueSites THEN "continue" ELSE "break"
InErrBlock(t) == frame[t].pc \in {"swap", "log", "else"}

\* C1: on a success-bearing input (true, Some(x), Ok(x)) every macro yields
\* the payload unchanged to the surrounding expression, performs no exit, and
\* execution goes on after the call site (the assert_eq! that follows passes
\* and the harness never enters the Err block).
C1_SuccessYieldsPayload ==
    \A t \in Threads :
        (Running(t) /\ IsSuccess(frame[t].outer)) =>
            /\ frame[t].pc \notin {"swap", "log", "else", "panic"}
            /\ inv[t].outcome \in {"none", "Ok"}
            /\ inv[t].exits = 0 /\ inv[t].exit = "none"
            /\ inv[t].outcome = "Ok" => frame[t].yielded = Inner(frame[t].outer)
            /\ frame[t].pc = "assert" => inv[t].outcome = "Ok"
            /\ frame[t].pc = "done" /\ frame[t].site \in ReturnSites
                  => frame[t].result = FallThrough

C1_Witness ==
    \E t \in Threads :
        /\ frame[t].site = "co_with_label"
        /\ frame[t].outer = Some(I32(2))
        /\ frame[t].pc = "inner" /\ frame[t].j = 1
        /\ frame[t].yielded = I32(2)
        /\ inv[t].outcome = "Ok"

\* C2: on a failure-bearing input (false, None, Err(e)) one invocation of any
\* macro performs exactly one exit, the one its name configures, yields no
\* value, and nothing after the call site runs for that invocation.
C2_FailureExitsOnce ==
    \A t \in Threads :
        (Running(t) /\ IsFailure(frame[t].outer)) =>
            /\ frame[t].pc \notin {"assert", "panic"}
            /\ frame[t].yielded = Unset
            /\ inv[t].outcome \in {"none", "Err"}
            /\ inv[t].outcome = "Err" =>
                  /\ inv[t].exits = IF InErrBlock(t) THEN 0 ELSE 1
                  /\ inv[t].exits = 1 => inv[t].exit = ConfiguredExit(frame[t].site)
            /\ inv[t].outcome = "none" => inv[t].exits = 0

C2_Witness ==
    \E t \in Threads :
        /\ frame[t].site = "cq"
        /\ frame[t].outer = None
        /\ inv[t].outcome = "Err"
        /\ inv[t].exits = 1 /\ inv[t].exit = "continue"
        /\ frame[t].pc = "inner" /\ frame[t].j = 2

\* C3: a return macro that fails makes bail return Default::default() (0)
\* when no value is given and the given value (1) otherwise; on success the
\* result is the harness's own (2) and the value expression is never
\* evaluated: it is evaluated once, on the failure path only.
C3_ReturnValue ==
    \A t \in Threads :
        (Running(t) /\ frame[t].site \in ReturnSites) =>
            /\ inv[t].vevals =
                  IF inv[t].exits = 1 /\ frame[t].site \in WithArgSites THEN 1 ELSE 0
            /\ IsSuccess(frame[t].outer) => inv[t].vevals = 0
            /\ frame[t].pc = "done" =>
                  frame[t].result =
                      IF IsSuccess(frame[t].outer) THEN 2
                      ELSE IF frame[t].site \in WithArgSites THEN 1 ELSE 0

C3_Witness ==
    \E t \in Threads :
        /\ frame[t].site = "ro_with_value"
        /\ frame[t].outer = Err(Unit)
        /\ frame[t].pc = "done"
        /\ frame[t].result = 1
        /\ inv[t].vevals = 1

\* C4: a continue macro in the inner of the two loops of bail resumes, on
\* failure, the inner loop at its next iteration when no label is given and
\* the labelled outer loop at its next iteration otherwise; the 2x2 harness
\* returns 12 on success, 8 on unlabelled failure and 4 on labelled failure.
C4_ContinueTarget ==
    \A t \in Threads :
        (Running(t) /\ frame[t].site \in ContinueSites) =>
            /\ inv[t].exits = 1 =>
                  inv[t].target = IF frame[t].site \in WithArgSites THEN "outer" ELSE "inner"
            /\ frame[t].pc = "done" =>
                  frame[t].result =
                      IF IsSuccess(frame[t].outer) THEN 12
                      ELSE IF frame[t].site \in WithArgSites THEN 4 ELSE 8

C4_Witness ==
    \E t \in Threads :
        /\ frame[t].site = "co_with_label"
        /\ frame[t].outer = Bool(FALSE)
        /\ frame[t].pc = "done"
        /\ frame[t].result = 4

\* C5: a break macro in the inner of the two loops of bail ends, on failure,
\* the inner loop only when no label is given (the outer body goes on after
\* it) and the labelled outer loop otherwise; the 2x2 harness returns 12 on
\* success, 6 on unlabelled failure and 2 on labelled failure.
C5_BreakTarget ==
    \A t \in Threads :
        (Running(t) /\ frame[t].site \in BreakSites) =>
            /\ inv[t].exits = 1 =>
                  inv[t].target = IF frame[t].site \in WithArgSites THEN "tail" ELSE "outer_tail"
            /\ frame[t].pc = "done" =>
                  frame[t].result =
                      IF IsSuccess(frame[t].outer) THEN 12
                      ELSE IF frame[t].site \in WithArgSites THEN 2 ELSE 6

C5_Witness ==
    \E t \in Threads :
        /\ frame[t].site = "bq_with_label"
        /\ frame[t].outer = None
        /\ frame[t].pc = "done"
        /\ frame[t].result = 2

\* C10: an always-log macro emits exactly one diagnostic per invocation that
\* fails, before the exit, and none on success; a quiet macro never emits one
\* and on failure does nothing but the exit (no latch, no detail kept).
C10_LoggingPolicy ==
    /\ \A s \in QuietNames : logged[s] = 0
    /\ \A t \in Threads :
          /\ (Running(t) /\ frame[t].site \in QuietNames) =>
                /\ frame[t].pc \notin {"swap", "log"}
                /\ inv[t].emitted = 0 /\ inv[t].line = NoLine
                /\ ~inv[t].swapped
                /\ frame[t].err = Unset
          /\ (Running(t) /\ frame[t].site \in AlwaysLogNames) =>
                /\ frame[t].pc # "swap" /\ ~inv[t].swapped
                /\ inv[t].outcome # "Err" => inv[t].emitted = 0
                /\ inv[t].outcome = "Err" =>
                      inv[t].emitted = IF frame[t].pc = "log" THEN 0 ELSE 1
                /\ inv[t].exits = 1 =>
                      inv[t].emitted = 1 /\ inv[t].line.at = frame[t].site
                /\ logged[frame[t].site] >= inv[t].emitted

C10_Witness ==
    \E t \in Threads :
        /\ frame[t].site = "c"
        /\ frame[t].outer = Err(Unit)
        /\ frame[t].pc = "else"
        /\ inv[t].emitted = 1 /\ inv[t].exits = 0
        /\ logged["c"] = 3

\* ------------------------------------------------ the log-once call sites
InFlight(s) ==
    {t \in Threads : Running(t) /\ frame[t].site = s /\ frame[t].pc \in {"swap", "log"}}

\* C6: whatever the interleaving of the invocations of one log-once call
\* site, it never emits more than one diagnostic, no two callers both hold
\* the right to emit, it emits none unless an invocation failed, and once
\* the invocations that failed are through their log step it has emitted
\* exactly one.
C6_LogOnceCount ==
    \A s \in LogOnceNames :
        /\ logged[s] <= 1
        /\ Cardinality({t \in Threads : Running(t) /\ frame[t].site = s /\ inv[t].won}) <= 1
        /\ ~failed[s] => logged[s] = 0
        /\ (failed[s] /\ InFlight(s) = {}) => logged[s] = 1

C6_Witness ==
    \E t1, t2 \in Threads :
        /\ t1 # t2
        /\ frame[t1].site = "bo" /\ frame[t2].site = "bo"
        /\ frame[t1].pc = "done" /\ frame[t2].pc = "done"
        /\ frame[t1].result = 6 /\ frame[t2].result = 6
        /\ logged["bo"] = 1

\* One step, seen from the latch and the log of each log-once call site.
C8_LatchStep ==
    \A s \in LogOnceNames :
        /\ __SHOULD_LOG[s] \in BOOLEAN
        /\ ~__SHOULD_LOG[s] => ~__SHOULD_LOG'[s]
        /\ __SHOULD_LOG'[s] # __SHOULD_LOG[s] =>
              \E t \in Threads :
                  /\ frame[t].site = s /\ frame[t].pc = "swap"
                  /\ inv[t].outcome = "Err"
                  /\ frame'[t].pc # "swap"
        /\ logged'[s] # logged[s] =>
              /\ logged[s] = 0 /\ logged'[s] = 1
              /\ ~__SHOULD_LOG[s]
              /\ \E t \in Threads :
                    frame[t].site = s /\ frame[t].pc = "log" /\ inv[t].won /\ frame'[t].pc = "else"

\* C8: the latch of a call site is a boolean that starts NotYetLogged (true);
\* it changes only from NotYetLogged to AlreadyLogged, only in the swap of an
\* invocation of that site that failed, never back; and the site's log grows
\* only once, by the invocation whose swap tripped the latch.
C8_LatchOneWay == (\A s \in LogOnceNames : __SHOULD_LOG[s]) /\ [][C8_LatchStep]_vars

C8_Witness ==
    \E t \in Threads :
        /\ frame[t].site = "ro"
        /\ ~__SHOULD_LOG["ro"] /\ logged["ro"] = 1
        /\ inv[t].swapped /\ ~inv[t].won
        /\ frame[t].pc = "done"

\* One step of a thread, seen from the call sites it is not at.
C9_OtherSitesStep ==
    \A t \in Threads :
        frame'[t] # frame[t] =>
            LET here == IF frame[t].pc = "idle" THEN frame'[t].site ELSE frame[t].site
            IN \A s \in LogOnceNames \ {here} :
                  __SHOULD_LOG'[s] = __SHOULD_LOG[s] /\ logged'[s] = logged[s]

\* Two call sites that both failed, with no failing invocation still to log.
C9_BothLogged ==
    \A s1, s2 \in LogOnceNames :
        (s1 # s2 /\ failed[s1] /\ failed[s2] /\ InFlight(s1) = {} /\ InFlight(s2) = {})
            => (logged[s1] = 1 /\ logged[s2] = 1)

\* C9: a step of an invocation at one log-once call site leaves the latch and
\* the log of every other log-once call site as they were, so two call sites
\* that have both seen a failure have each emitted exactly one diagnostic
\* once their failing invocations are through the log step.
C9_LatchPerSite == [][C9_OtherSitesStep]_vars /\ []C9_BothLogged

C9_Witness ==
    \E t1, t2 \in Threads :
        /\ frame[t1].site = "ro" /\ frame[t2].site = "co_with_label"
        /\ frame[t1].pc = "done" /\ frame[t2].pc = "done"
        /\ failed["ro"] /\ failed["co_with_label"]
        /\ logged["ro"] = 1 /\ logged["co_with_label"] = 1

\* Where the exit of each call site leads in bail.
ExitTarget(s) ==
    CASE s \in ReturnSites -> "done"
      [] s \in ContinueSites -> IF s \in WithArgSites THEN "outer" ELSE "inner"
      [] OTHER -> IF s \in WithArgSites THEN "tail" ELSE "outer_tail"

\* A thread in the Err block can always take a step that changes the state.
C7_NeverBlocked == \A t \in Threads : InErrBlock(t) => ENABLED <<Step(t)>>_vars

\* The exit performed is the configured one, whoever won the latch.
C7_SameExit ==
    \A t \in Threads :
        (Running(t) /\ inv[t].exits = 1) =>
            /\ inv[t].exit = ConfiguredExit(frame[t].site)
            /\ inv[t].target = ExitTarget(frame[t].site)

\* C7: in the log-once macros an invocation that failed always goes on to its
\* exit: in the Err block its thread always has a step of its own to take
\* (it waits for nothing), it leaves the block having performed one exit,
\* and that exit is the one its macro configures whether or not its swap
\* won the latch.
C7_LoserExits ==
    /\ \A t \in Threads : InErrBlock(t) ~> (~InErrBlock(t) /\ inv[t].exits = 1)
    /\ []C7_NeverBlocked
    /\ []C7_SameExit

C7_Witness ==
    \E t \in Threads :
        /\ inv[t].swapped /\ ~inv[t].won
        /\ inv[t].exits = 1
        /\ logged[frame[t].site] = 0

\* ------------------------------------------------------------ the build
\* How many backends and how many levels a feature set selects.
NumBackends(fs) == Cardinality(fs \cap Backends)
NumLevels(fs) == Cardinality(fs \cap Levels)

\* C11: for every subset of the seven features the build reports, each with
\* its own message, two backends, two levels, a backend without a level and
\* a level without a backend; the four messages differ; and the build is
\* accepted exactly with one backend and one level, or with neither, in
\* which case the diagnostics go through println.
C11_FeatureValidation ==
    build.done =>
        /\ MultipleBackends \in build.errors <=> NumBackends(features) >= 2
        /\ MultipleLevels \in build.errors <=> NumLevels(features) >= 2
        /\ BackendNoLevel \in build.errors <=>
              (NumBackends(features) >= 1 /\ NumLevels(features) = 0)
        /\ LevelNoBackend \in build.errors <=>
              (NumBackends(features) = 0 /\ NumLevels(features) >= 1)
        /\ Cardinality({MultipleBackends, MultipleLevels, BackendNoLevel, LevelNoBackend}) = 4
        /\ build.ok <=>
              \/ NumBackends(features) = 1 /\ NumLevels(features) = 1
              \/ NumBackends(features) = 0 /\ NumLevels(features) = 0
        /\ build.ok <=> build.errors = {}
        /\ build.ok =>
              /\ Cardinality(build.backend) = 1 /\ Cardinality(build.level) = 1
              /\ features = {} <=> build.backend = {"std::println"}
              /\ features = {} <=> build.level = {"println"}
              /\ features # {} => build.backend \cup build.level = features

C11_Witness ==
    /\ features = {"log", "tracing", "info", "error"}
    /\ build.done /\ ~build.ok
    /\ build.errors = {MultipleBackends, MultipleLevels}

\* ------------------------------------------------------- normalisation
\* The invocation of thread t has evaluated into_result on its input.
Normalized(t) == Running(t) /\ inv[t].outcome # "none"

\* The Result the invocation matched on is one of the two arms.
OneArm(t) == inv[t].res.shape \in {"Ok", "Err"} /\ inv[t].outcome = inv[t].res.shape

\* Optional and success-or-error inputs: present -> Ok(payload), absent ->
\* Err(None::<()>), Ok(x) -> Ok(x), Err(e) -> Err(e).
OptionAndResultArms(t) ==
    LET x == frame[t].outer
        r == inv[t].res
    IN /\ x.shape = "Some" => r = Ok(Inner(x))
       /\ x.shape = "None" => (r.shape = "Err" /\ Inner(r) \in {NoneUnit, Unit})
       /\ x.shape = "Ok" => r = Ok(Inner(x))
       /\ x.shape = "Err" => r = Err(Inner(x))

\* The step of thread t that evaluates into_result changes nothing but the
\* invocation's own locals: no latch, no log, and the input is the one given.
NormalizationStep(t) ==
    (frame[t].pc = "macro" /\ frame'[t].pc # "macro") =>
        /\ __SHOULD_LOG' = __SHOULD_LOG /\ logged' = logged /\ budget' = budget
        /\ frame'[t].outer = frame[t].outer /\ frame'[t].val = frame[t].val
        /\ \A u \in Threads \ {t} : frame'[u] = frame[u] /\ inv'[u] = inv[u]

\* The claim as it is worded: a flag maps to Success(Unit) or Failure(Unit),
\* neither arm carrying a payload; the other shapes as in OptionAndResultArms.
C12_FlagArmsAreUnit ==
    \A t \in Threads :
        Normalized(t) =>
            /\ OneArm(t)
            /\ OptionAndResultArms(t)
            /\ frame[t].outer = Bool(TRUE) => inv[t].res = Ok(Unit)
            /\ frame[t].outer = Bool(FALSE) => inv[t].res = Err(Unit)

\* What the flag becomes in the code: Ok(true) or Err(false), a bool in
\* each arm, which is what the Ok arm yields and what the diagnostic renders.
C12_Arms ==
    \A t \in Threads :
        Normalized(t) =>
            /\ OneArm(t)
            /\ OptionAndResultArms(t)
            /\ frame[t].outer.shape = "None" => inv[t].res = Err(NoneUnit)
            /\ frame[t].outer = Bool(TRUE) => inv[t].res = Ok(True)
            /\ frame[t].outer = Bool(FALSE) => inv[t].res = Err(False)
            /\ frame[t].outer.shape \in {"bool", "Some", "None", "Ok", "Err"}

\* C12 (amended): into_result is total and free of side effects and sends
\* each input to one arm: a flag to Ok(true) if true and Err(false) if false
\* (each arm carries the constant bool of its arm, not Unit), an optional to
\* Ok(payload) if present and Err(None::<()>) if absent, and a Result to
\* itself, payload or error unchanged.
C12_Normalization == []C12_Arms /\ [][\A t \in Threads : NormalizationStep(t)]_vars

C12_Witness ==
    \E t \in Threads :
        /\ Normalized(t)
        /\ frame[t].outer = Bool(FALSE)
        /\ inv[t].res = Err(False)
        /\ frame[t].err = False

\* ---------------------------------------------------------- diagnostics
\* The invocation of thread t has emitted its diagnostic.
Emitted(t) == Running(t) /\ inv[t].emitted > 0

\* A line without the " is `..`" part.
NoSuffix == NoLine.is

\* C13: every diagnostic gives the call site's position and the text of the
\* checked expression, and the suffix " is `<debug-of-detail>`" is there
\* only for a failing Result (rendering its error): it is absent for a false
\* flag and for an absent optional.
C13_SuffixOnlyForErr ==
    \A t \in Threads :
        Emitted(t) =>
            /\ inv[t].emitted = 1
            /\ inv[t].line.at = Site(t)
            /\ inv[t].line.expr = "outer"
            /\ frame[t].outer.shape = "Err" => inv[t].line.is = Debug(Inner(frame[t].outer))
            /\ frame[t].outer.shape \in {"bool", "None"} => inv[t].line.is = NoSuffix

\* ------------------------------------------------------ import surface
\* The nine macros and the nine tiny aliases the crate documents.
NineMacros ==
    {"or_return", "or_return_quiet", "or_return_log_once",
     "or_continue", "or_continue_quiet", "or_continue_log_once",
     "or_break", "or_break_quiet", "or_break_log_once"}
NineAliases ==
    {Export("r", "or_return"), Export("rq", "or_return_quiet"),
     Export("ro", "or_return_log_once"),
     Export("c", "or_continue"), Export("cq", "or_continue_quiet"),
     Export("co", "or_continue_log_once"),
     Export("b", "or_break"), Export("bq", "or_break_quiet"),
     Export("bo", "or_break_log_once")}

Imported(m) == \E b \in scope : b.via = m
InScope(m) == {Export(b.name, b.macro) : b \in {x \in scope : x.via = m}}

\* C14: glob-importing prelude brings the nine macros and the nine aliases
\* into scope, each alias naming its macro; glob-importing explicit brings
\* the nine macros and no alias.
C14_ImportSurface ==
    /\ Imported("prelude") =>
          InScope("prelude") = {Export(n, n) : n \in NineMacros} \cup NineAliases
    /\ Imported("explicit") =>
          InScope("explicit") = {Export(n, n) : n \in NineMacros}

\* ----------------------------------------------------- single evaluation
\* Once the invocation has matched, the checked expression has been
\* evaluated once, whatever the arm and whatever was emitted or exited since.
EvaluatedOnce ==
    \A t \in Threads :
        /\ inv[t].outcome = "none" => inv[t].evals = 0
        /\ inv[t].outcome # "none" => inv[t].evals = 1
        /\ (InErrBlock(t) \/ inv[t].emitted > 0 \/ inv[t].exits > 0) => inv[t].evals = 1
        /\ (Running(t) /\ frame[t].yielded # Unset) => inv[t].evals = 1

\* While the harness runs, the emission and the exit find the expression
\* already evaluated and do not evaluate it again; only the match does.
EvaluatedBefore(t) ==
    frame'[t].pc # "idle" =>
        /\ inv'[t].emitted > inv[t].emitted => (inv[t].evals = 1 /\ inv'[t].evals = 1)
        /\ inv'[t].exits > inv[t].exits => (inv[t].evals = 1 /\ inv'[t].evals = 1)
        /\ inv'[t].evals # inv[t].evals =>
              /\ frame[t].pc = "macro" /\ inv'[t].evals = 1
              /\ inv'[t].emitted = 0 /\ inv'[t].exits = 0

\* C15: in each of the nine macros the checked expression is evaluated once
\* per invocation, on the success and on the failure path, with or without
\* a diagnostic: the logging macro only renders it as text, and the single
\* evaluation comes before the emission and before the exit.
C15_SingleEvaluation == []EvaluatedOnce /\ [][\A t \in Threads : EvaluatedBefore(t)]_vars

C15_Witness ==
    \E t \in Threads :
        /\ Site(t) \in OnceSites
        /\ inv[t].emitted = 1 /\ inv[t].line.expr = "outer"
        /\ inv[t].exits = 1
        /\ inv[t].evals = 1

====
